---- MODULE Spec2Model ----
(***************************************************************************)
(* Media Optimizer (webp_optimizer_app.py).                                *)
(*                                                                         *)
(* Spec: the capability probes, the image and video adapters, the media    *)
(* inspector and the size formatter, each applied to bounded inputs and to *)
(* every outcome of the external tool it invokes.                          *)
(*                                                                         *)
(* AppSpec: a run of the script: the image tab and then the video tab,     *)
(* each with its capability probe and, when a file is uploaded, its        *)
(* request: the temporary directory, the display of the original, the      *)
(* Optimize button, the adapter, the report and the removal of the         *)
(* directory.                                                              *)
(*                                                                         *)
(* Conventions.  Python's None / optional values are sequences of length   *)
(* at most one: <<>> is None, <<v>> is the value v.  Text that the code    *)
(* parses or formats is a sequence of one-character strings; command-line  *)
(* tokens, which the code only builds, are TLA+ strings.                   *)
(***************************************************************************)
EXTENDS Integers, Sequences, FiniteSets, TLC

VARIABLES
    pc,      \* "call": the call below is about to be made; "done": it is over
    fn,      \* name of the function called
    args,    \* its arguments
    env,     \* the outcome of the external tool / library during the call
    ran,     \* the argument lists handed to subprocess.run during the call
    ret,     \* the value returned (meaningful when exc = "none")
    exc,     \* the exception that left the function, "none" if it returned
    disk,    \* the file at the output path when the call is over (<<>> absent, <<n>> n bytes)
    upload,      \* the uploaded file of the request: its name and size
    tmp,         \* the temporary directory of the request and the files in it
    video_info,  \* what get_video_info returned to the request
    result,      \* (success, error) as the adapter returned it to the request
    offer,       \* the download offered to the user
    trail        \* the steps the request has taken, in order

callvars == <<fn, args, env, ran, ret, exc, disk>>
reqvars == <<upload, tmp, video_info, result, offer, trail>>
vars == <<pc, fn, args, env, ran, ret, exc, disk,
          upload, tmp, video_info, result, offer, trail>>

None == << >>
Some(v) == <<v>>

----------------------------------------------------------------------------
(* Bounds of the exploration *)

MaxFile == 2

\* the most comma-separated fields in an ffprobe output
MaxFields == 6

\* byte counts are taken within SizeSpan of each landmark of SizeLandmarks
SizeSpan == 8

----------------------------------------------------------------------------
(* Outcomes of subprocess.run(cmd, capture_output=True, check=True), with  *)
(* and without text=True                                                   *)

\* exceptions raised by subprocess.run when the child cannot be started
LaunchErrors == {"FileNotFoundError", "PermissionError"}

ExitStatuses == {0, 1, -9}

StderrTexts == {"", "Invalid data found when processing input"}

\* captured bytes that are not UTF-8, such as a Latin-1 metadata tag that
\* the tool echoes
NotUtf8 == "title: caf\\xe9"

\* what a tool can leave on a captured stream
Captured == StderrTexts \cup {NotUtf8}

\* with text=True subprocess.run decodes what it captured, strictly, and
\* raises UnicodeDecodeError when it is not UTF-8
decodes(captured) == captured # NotUtf8

\* the file at a path: absent, empty, or 1..MaxFile bytes
FileStates == {None} \cup {Some(n) : n \in 0..MaxFile}

\* signal.Signals: the names of the signal numbers
Signals ==
    <<"SIGHUP", "SIGINT", "SIGQUIT", "SIGILL", "SIGTRAP", "SIGABRT", "SIGBUS",
      "SIGFPE", "SIGKILL", "SIGUSR1", "SIGSEGV", "SIGUSR2", "SIGPIPE",
      "SIGALRM", "SIGTERM", "SIGSTKFLT", "SIGCHLD", "SIGCONT", "SIGSTOP",
      "SIGTSTP", "SIGTTIN", "SIGTTOU", "SIGURG", "SIGXCPU", "SIGXFSZ",
      "SIGVTALRM", "SIGPROF", "SIGWINCH", "SIGIO", "SIGPWR", "SIGSYS">>
    @@ (34 :> "SIGRTMIN") @@ (64 :> "SIGRTMAX")

\* repr() of a str without quotes or backslashes in it
repr_str(text) == "'" \o text \o "'"

\* repr() of a list of such strs
RECURSIVE repr_items(_)
repr_items(list) ==
    IF list = << >> THEN ""
    ELSE IF Len(list) = 1 THEN repr_str(list[1])
    ELSE repr_str(list[1]) \o ", " \o repr_items(Tail(list))

repr_list(list) == "[" \o repr_items(list) \o "]"

\* str(e) of a subprocess.CalledProcessError: the generic error description,
\* "Command '%s' ..." % cmd with cmd the argument list
CalledProcessError_str(cmd, code) ==
    IF code < 0
    THEN IF -code \in DOMAIN Signals
         THEN "Command '" \o repr_list(cmd) \o "' died with <Signals."
                  \o Signals[-code] \o ": " \o ToString(-code) \o ">."
         ELSE "Command '" \o repr_list(cmd) \o "' died with unknown signal "
                  \o ToString(-code) \o "."
    ELSE "Command '" \o repr_list(cmd) \o "' returned non-zero exit status "
             \o ToString(code) \o "."

----------------------------------------------------------------------------
(* optimize_video *)

\* list.insert(i, x), i a 0-based index
insert(list, i, x) ==
    LET k == IF i > Len(list) THEN Len(list) ELSE i
    IN  SubSeq(list, 1, k) \o <<x>> \o SubSeq(list, k + 1, Len(list))

\* `if fps:` is true of an fps that is neither None nor 0
truthy_fps(fps) == fps # None /\ fps[1] # 0

video_cmd(input_path, output_path, crf, speed, fps) ==
    LET cmd == << "ffmpeg", "-i", input_path,
                  "-c:v", "libvpx-vp9",
                  "-crf", ToString(crf),
                  "-b:v", "0",
                  "-speed", ToString(speed),
                  "-row-mt", "1",
                  "-tile-columns", "2",
                  "-tile-rows", "1",
                  "-frame-parallel", "1",
                  "-threads", "0",
                  "-c:a", "libopus",
                  "-b:a", "96k",
                  "-y",
                  output_path >>
    IN  IF truthy_fps(fps)
        THEN insert(insert(cmd, 2, "-vf"), 3, "fps=" \o ToString(fps[1]))
        ELSE cmd

\* The outcomes of running ffmpeg: it cannot be started, or it exits with a
\* status and a captured stderr, text or not.  `written` is the file at the
\* output path afterwards: with exit status 0 ffmpeg has written the output
\* and it holds data; otherwise it is whatever was there before (absent,
\* possibly) or a partial file.
VideoRuns ==
    [kind : LaunchErrors, written : FileStates]
    \cup [kind : {"exit"}, code : {0}, stderr : Captured,
          written : {Some(n) : n \in 1..MaxFile}]
    \cup [kind : {"exit"}, code : ExitStatuses \ {0}, stderr : Captured,
          written : FileStates]

\* the message of the `except subprocess.CalledProcessError` branch
video_error(cmd, run) ==
    IF run.stderr # "" THEN run.stderr ELSE CalledProcessError_str(cmd, run.code)

\* variant: subprocess.run without check=True, every exit status is a success
optimize_video_unchecked(input_path, output_path, crf, speed, fps, run) ==
    LET cmd == video_cmd(input_path, output_path, crf, speed, fps)
    IN  IF run.kind # "exit"
        THEN [ran |-> <<cmd>>, exc |-> run.kind, disk |-> run.written, ret |-> None]
        ELSE IF ~decodes(run.stderr)
        THEN [ran |-> <<cmd>>, exc |-> "UnicodeDecodeError", disk |-> run.written,
              ret |-> None]
        ELSE [ran |-> <<cmd>>, exc |-> "none", disk |-> run.written,
              ret |-> [success |-> TRUE, error |-> None]]

optimize_video(input_path, output_path, crf, speed, fps, run) ==
    LET cmd == video_cmd(input_path, output_path, crf, speed, fps)
    IN  IF run.kind # "exit"
        THEN [ran |-> <<cmd>>, exc |-> run.kind, disk |-> run.written, ret |-> None]
        ELSE IF ~decodes(run.stderr)
        THEN [ran |-> <<cmd>>, exc |-> "UnicodeDecodeError", disk |-> run.written,
              ret |-> None]
        ELSE IF run.code = 0
        THEN [ran |-> <<cmd>>, exc |-> "none", disk |-> run.written,
              ret |-> [success |-> TRUE, error |-> None]]
        ELSE [ran |-> <<cmd>>, exc |-> "none", disk |-> run.written,
              ret |-> [success |-> FALSE, error |-> Some(video_error(cmd, run))]]

VideoInputs == {"in.webm", "clip.mp4"}
VideoOutputs == {"out.webm", "optimized_clip.mp4"}
\* the ends of the CRF and speed sliders
CrfValues == {28, 40}
SpeedValues == {0, 5}
FpsValues == {None, Some(24), Some(30)}

VideoArgs ==
    [input_path : VideoInputs, output_path : VideoOutputs,
     crf : CrfValues, speed : SpeedValues, fps : FpsValues]

\* the results of a call land in the state
Return(r) ==
    /\ pc' = "done"
    /\ ran' = r.ran
    /\ ret' = r.ret
    /\ exc' = r.exc
    /\ disk' = r.disk
    /\ UNCHANGED <<fn, args, env>>
    /\ UNCHANGED reqvars

CallOptimizeVideo ==
    /\ pc = "call"
    /\ fn = "optimize_video"
    /\ Return(optimize_video(args.input_path, args.output_path, args.crf,
                             args.speed, args.fps, env))

----------------------------------------------------------------------------
(* optimize_webp *)

ImageModes == {"RGB", "RGBA", "L", "LA", "P", "CMYK"}

\* the modes the adapter hands to the encoder as they are
KeptModes == {"RGB", "RGBA", "L", "LA"}

\* Exceptions of the Exception hierarchy that Pillow and the file system
\* raise, with their str(); MemoryError() has the empty text.
OpenErrors ==
    { [type |-> "FileNotFoundError", text |-> "[Errno 2] No such file or directory"],
      [type |-> "UnidentifiedImageError", text |-> "cannot identify image file"] }
ConvertErrors ==
    { [type |-> "ValueError", text |-> "conversion not supported"],
      [type |-> "MemoryError", text |-> ""] }
SaveErrors ==
    { [type |-> "OSError", text |-> "[Errno 28] No space left on device"],
      [type |-> "PermissionError", text |-> "[Errno 13] Permission denied"] }

\* The outcomes of the library calls of one optimize_webp: `stage` is the
\* first call that raises ("ok": none does), `mode` the mode of the opened
\* image, `before` the file at the output path before the call, `written`
\* the file there after img.save: a completed save leaves a file that holds
\* data, a failed one leaves anything.
ImageRuns ==
    [stage : {"open"}, error : OpenErrors, before : FileStates]
    \cup [stage : {"convert"}, mode : ImageModes \ KeptModes, error : ConvertErrors,
          before : FileStates]
    \cup [stage : {"save"}, mode : ImageModes, error : SaveErrors,
          written : FileStates]
    \cup [stage : {"ok"}, mode : ImageModes,
          written : {Some(n) : n \in 1..MaxFile}]

\* the mode of the image handed to img.save
saved_mode(mode) ==
    IF mode = "RGBA" THEN mode
    ELSE IF mode \notin KeptModes THEN "RGB"
    ELSE mode

\* the img.save call
save_call(output_path, quality, method, mode) ==
    [path |-> output_path, format |-> "WEBP", quality |-> quality,
     method |-> IF method > 0 THEN 6 ELSE 0, lossless |-> FALSE, mode |-> mode]

\* the `except Exception as e` branch
image_failure(error, file) ==
    [ran |-> << >>, exc |-> "none", disk |-> file,
     ret |-> [success |-> FALSE, error |-> Some(error.text)]]

\* variant: `except OSError as e`, other exceptions leave the adapter
optimize_webp_oserror_only(input_path, output_path, quality, method, run) ==
    IF run.stage # "ok" /\ run.error.type \in {"ValueError", "MemoryError"}
    THEN [ran |-> << >>, exc |-> run.error.type, disk |-> run.before, ret |-> None]
    ELSE IF run.stage \in {"open", "convert"} THEN image_failure(run.error, run.before)
    ELSE LET call == save_call(output_path, quality, method, saved_mode(run.mode))
         IN  IF run.stage = "save"
             THEN [image_failure(run.error, run.written) EXCEPT !.ran = <<call>>]
             ELSE [ran |-> <<call>>, exc |-> "none", disk |-> run.written,
                   ret |-> [success |-> TRUE, error |-> None]]

optimize_webp(input_path, output_path, quality, method, run) ==
    IF run.stage = "open" THEN image_failure(run.error, run.before)
    ELSE IF run.mode # "RGBA" /\ run.mode \notin KeptModes /\ run.stage = "convert"
    THEN image_failure(run.error, run.before)
    ELSE LET call == save_call(output_path, quality, method, saved_mode(run.mode))
         IN  IF run.stage = "save"
             THEN [image_failure(run.error, run.written) EXCEPT !.ran = <<call>>]
             ELSE [ran |-> <<call>>, exc |-> "none", disk |-> run.written,
                   ret |-> [success |-> TRUE, error |-> None]]

ImageArgs ==
    [input_path : {"in.png", "photo.jpg"}, output_path : {"optimized_in.png"},
     quality : {50, 85, 100}, method : {0, 3, 6}]

CallOptimizeWebp ==
    /\ pc = "call"
    /\ fn = "optimize_webp"
    /\ Return(optimize_webp(args.input_path, args.output_path, args.quality,
                            args.method, env))

----------------------------------------------------------------------------
(* check_cwebp, check_ffmpeg *)

\* the outcomes of `<tool> -version` under subprocess.run(..., check=True)
VersionRuns ==
    [kind : LaunchErrors] \cup [kind : {"exit"}, code : ExitStatuses]

\* the exception, if any, that subprocess.run raises for an outcome
run_raises(run) ==
    IF run.kind # "exit" THEN run.kind
    ELSE IF run.code # 0 THEN "CalledProcessError"
    ELSE "none"

\* the handlers `except (subprocess.CalledProcessError, FileNotFoundError)`
ProbeCaught == {"CalledProcessError", "FileNotFoundError"}

\* cwebp -version, and the trial encode Image.new(...).save(BytesIO(), 'WEBP')
ProbeRuns == [cwebp : VersionRuns, pillow : {"ok", "OSError", "KeyError"}]

check_cwebp(run) ==
    LET cmd == <<"cwebp", "-version">>
        e == run_raises(run.cwebp)
    IN  IF e = "none"
        THEN [ran |-> <<cmd>>, exc |-> "none", disk |-> None,
              ret |-> [available |-> TRUE, mode |-> Some("command_line")]]
        ELSE IF e \in ProbeCaught
        THEN IF run.pillow = "ok"
             THEN [ran |-> <<cmd>>, exc |-> "none", disk |-> None,
                   ret |-> [available |-> TRUE, mode |-> Some("pillow")]]
             ELSE [ran |-> <<cmd>>, exc |-> "none", disk |-> None,
                   ret |-> [available |-> FALSE, mode |-> None]]
        ELSE [ran |-> <<cmd>>, exc |-> e, disk |-> None, ret |-> None]

check_ffmpeg(run) ==
    LET cmd == <<"ffmpeg", "-version">>
        e == run_raises(run)
    IN  IF e = "none"
        THEN [ran |-> <<cmd>>, exc |-> "none", disk |-> None, ret |-> TRUE]
        ELSE IF e \in ProbeCaught
        THEN [ran |-> <<cmd>>, exc |-> "none", disk |-> None, ret |-> FALSE]
        ELSE [ran |-> <<cmd>>, exc |-> e, disk |-> None, ret |-> None]

CallCheckCwebp ==
    /\ pc = "call"
    /\ fn = "check_cwebp"
    /\ Return(check_cwebp(env))

CallCheckFfmpeg ==
    /\ pc = "call"
    /\ fn = "check_ffmpeg"
    /\ Return(check_ffmpeg(env))

----------------------------------------------------------------------------
(* Text *)

Digit == <<"0", "1", "2", "3", "4", "5", "6", "7", "8", "9">>
DigitChars == {Digit[i] : i \in 1..10}
digit_value(c) == CHOOSE d \in 0..9 : Digit[d + 1] = c

Whitespace == {" ", "\n"}

RECURSIVE lstrip(_)
lstrip(s) ==
    IF s # << >> /\ Head(s) \in Whitespace THEN lstrip(Tail(s)) ELSE s

RECURSIVE rstrip(_)
rstrip(s) ==
    IF s # << >> /\ s[Len(s)] \in Whitespace THEN rstrip(SubSeq(s, 1, Len(s) - 1)) ELSE s

\* str.strip()
strip(s) == rstrip(lstrip(s))

\* str.split(sep): "" splits into one empty field
RECURSIVE split(_, _)
split(s, sep) ==
    IF \E i \in 1..Len(s) : s[i] = sep
    THEN LET i == CHOOSE j \in 1..Len(s) :
                      s[j] = sep /\ \A k \in 1..(j - 1) : s[k] # sep
         IN  <<SubSeq(s, 1, i - 1)>> \o split(SubSeq(s, i + 1, Len(s)), sep)
    ELSE <<s>>

unsigned(s) == IF s # << >> /\ Head(s) \in {"+", "-"} THEN Tail(s) ELSE s
negative(s) == s # << >> /\ Head(s) = "-"

RECURSIVE digits_value(_)
digits_value(s) ==
    IF s = << >> THEN 0
    ELSE 10 * digits_value(SubSeq(s, 1, Len(s) - 1)) + digit_value(s[Len(s)])

\* int(s) succeeds on an optionally signed, non-empty run of digits,
\* surrounding whitespace allowed
int_parses(s) ==
    LET t == unsigned(strip(s))
    IN  t # << >> /\ \A i \in 1..Len(t) : t[i] \in DigitChars

int(s) ==
    LET t == strip(s)
    IN  IF negative(t) THEN -digits_value(unsigned(t)) ELSE digits_value(unsigned(t))

without(s, c) == SelectSeq(s, LAMBDA x : x # c)

\* float(s) succeeds on an optionally signed decimal with at most one point
\* and at least one digit, surrounding whitespace allowed
float_parses(s) ==
    LET t == unsigned(strip(s))
    IN  /\ \A i \in 1..Len(t) : t[i] \in DigitChars \cup {"."}
        /\ Len(without(t, ".")) >= 1
        /\ Len(t) - Len(without(t, ".")) <= 1

\* float(s) as a decimal: num / 10^scale
float(s) ==
    LET t == unsigned(strip(s))
        frac == IF \E i \in 1..Len(t) : t[i] = "."
                THEN Len(t) - (CHOOSE i \in 1..Len(t) : t[i] = ".")
                ELSE 0
        n == digits_value(without(t, "."))
    IN  [num |-> IF negative(strip(s)) THEN -n ELSE n, scale |-> frac]

----------------------------------------------------------------------------
(* get_video_info *)

probe_cmd(video_path) ==
    << "ffprobe", "-v", "error",
       "-select_streams", "v:0",
       "-show_entries", "stream=width,height,r_frame_rate,duration,bit_rate",
       "-of", "csv=p=0",
       video_path >>

\* the values ffprobe prints for an entry: nothing, integers, a decimal,
\* a ratio, or N/A
FieldTexts ==
    { << >>, <<"8">>, <<"4", "0">>, <<"1", ".", "5">>, <<"3", "/", "1">>,
      <<"N", "/", "A">> }

RECURSIVE join(_)
join(fields) ==
    IF Len(fields) = 0 THEN << >>
    ELSE IF Len(fields) = 1 THEN fields[1]
    ELSE fields[1] \o <<",">> \o join(Tail(fields))

\* what ffprobe prints for such fields: one csv line, or nothing at all
csv_line(fields) == IF fields = << >> THEN << >> ELSE join(fields) \o <<"\n">>

FieldLists == UNION {[1..n -> FieldTexts] : n \in 0..MaxFields}

\* the outcomes of running ffprobe: it cannot be started, or it exits with
\* a status, a captured stdout and a captured stderr.  `fields` are the
\* values it printed, a stdout of <<NotUtf8>> is one that is not text, and
\* with -v error its stderr holds error lines, whatever the exit status
ProbeOutputsOf(lists) ==
    [kind : LaunchErrors]
    \cup [kind : {"exit"}, code : ExitStatuses \ {0}, stdout : {<< >>, <<NotUtf8>>},
          stderr : Captured]
    \cup {[kind |-> "exit", code |-> 0, fields |-> f, stdout |-> csv_line(f),
           stderr |-> e] : f \in lists, e \in Captured}
    \cup [kind : {"exit"}, code : {0}, stdout : {<<NotUtf8>>}, stderr : Captured]

\* the exception, if any, that subprocess.run(..., text=True, check=True)
\* raises for an outcome: both captured streams are decoded before the
\* exit status is looked at
text_run_raises(run) ==
    IF run.kind # "exit" THEN run.kind
    ELSE IF \/ \E i \in 1..Len(run.stdout) : ~decodes(run.stdout[i])
            \/ ~decodes(run.stderr)
    THEN "UnicodeDecodeError"
    ELSE run_raises(run)

ProbeOutputs == ProbeOutputsOf(FieldLists)

\* an exception raised while the dict is built (int() or float() of a
\* malformed field)
info_raises(parts) ==
    \/ parts[1] # << >> /\ ~int_parses(parts[1])
    \/ parts[2] # << >> /\ ~int_parses(parts[2])
    \/ Len(parts) > 3 /\ parts[4] # << >> /\ ~float_parses(parts[4])
    \/ Len(parts) > 4 /\ parts[5] # << >> /\ ~int_parses(parts[5])

info_dict(parts) ==
    [width |-> IF parts[1] # << >> THEN Some(int(parts[1])) ELSE None,
     height |-> IF parts[2] # << >> THEN Some(int(parts[2])) ELSE None,
     fps |-> IF parts[3] # << >> THEN Some(parts[3]) ELSE None,
     duration |-> IF Len(parts) > 3 /\ parts[4] # << >>
                  THEN Some(float(parts[4])) ELSE None,
     bitrate |-> IF Len(parts) > 4 /\ parts[5] # << >>
                 THEN Some(int(parts[5])) ELSE None]

get_video_info(video_path, run) ==
    LET cmd == probe_cmd(video_path)
        nothing == [ran |-> <<cmd>>, exc |-> "none", disk |-> None, ret |-> None]
    IN  IF text_run_raises(run) # "none" THEN nothing
        ELSE LET parts == split(strip(run.stdout), ",")
             IN  IF Len(parts) >= 4 /\ ~info_raises(parts)
                 THEN [nothing EXCEPT !.ret = Some(info_dict(parts))]
                 ELSE nothing

CallGetVideoInfo ==
    /\ pc = "call"
    /\ fn = "get_video_info"
    /\ Return(get_video_info(args.video_path, env))

----------------------------------------------------------------------------
(* format_size *)

\* str(n) of a non-negative integer
RECURSIVE str_int(_)
str_int(n) ==
    IF n < 10 THEN <<Digit[n + 1]>> ELSE str_int(n \div 10) \o <<Digit[(n % 10) + 1]>>

\* num/den in hundredths, rounded to the nearest, ties to the even
\* hundredth: the rounding of the format specification .2f applied to the
\* quotient, which is exact in binary floating point for a den that is a
\* power of two
round_hundredths(num, den) ==
    LET q == (num * 100) \div den
        r == (num * 100) % den
    IN  IF 2 * r > den \/ (2 * r = den /\ q % 2 = 1) THEN q + 1 ELSE q

\* f"{num / den:.2f}"
format_2f(num, den) ==
    LET h == round_hundredths(num, den)
    IN  str_int(h \div 100) \o <<".", Digit[((h % 100) \div 10) + 1], Digit[(h % 10) + 1]>>

\* variant: the thresholds taken inclusively
format_size_inclusive(size_bytes) ==
    IF size_bytes <= 1024
    THEN str_int(size_bytes) \o <<" ", "B">>
    ELSE IF size_bytes <= 1024 * 1024
    THEN format_2f(size_bytes, 1024) \o <<" ", "K", "B">>
    ELSE format_2f(size_bytes, 1024 * 1024) \o <<" ", "M", "B">>

format_size(size_bytes) ==
    IF size_bytes < 1024
    THEN str_int(size_bytes) \o <<" ", "B">>
    ELSE IF size_bytes < 1024 * 1024
    THEN format_2f(size_bytes, 1024) \o <<" ", "K", "B">>
    ELSE format_2f(size_bytes, 1024 * 1024) \o <<" ", "M", "B">>

\* byte counts around which the sizes are taken: zero, the examples 500,
\* 2048 and 5 MiB, the two thresholds, and the ties 1152 (1.125 KB) and
\* 1408 (1.375 KB)
SizeLandmarks == {0, 500, 1024, 1152, 1408, 2048, 1024 * 1024, 5 * 1024 * 1024}

Sizes ==
    {b \in {m + d : m \in SizeLandmarks, d \in (-SizeSpan)..SizeSpan} : b >= 0}

CallFormatSize ==
    /\ pc = "call"
    /\ fn = "format_size"
    /\ Return([ran |-> << >>, exc |-> "none", disk |-> None,
               ret |-> format_size(args.size_bytes)])

----------------------------------------------------------------------------
(* Paths and file names, as texts *)

\* str(path): the characters as one string
RECURSIVE str_path(_)
str_path(p) == IF p = << >> THEN "" ELSE Head(p) \o str_path(Tail(p))

\* the position of the last "." of a name (0: none)
last_dot(name) ==
    IF \E i \in 1..Len(name) : name[i] = "."
    THEN CHOOSE i \in 1..Len(name) :
             name[i] = "." /\ \A k \in (i + 1)..Len(name) : name[k] # "."
    ELSE 0

\* PurePath.suffix and PurePath.stem of a file name
suffix(name) ==
    LET i == last_dot(name)
    IN  IF 1 < i /\ i < Len(name) THEN SubSeq(name, i, Len(name)) ELSE << >>
stem(name) == SubSeq(name, 1, Len(name) - Len(suffix(name)))

Optimized == <<"o", "p", "t", "i", "m", "i", "z", "e", "d", "_">>
DotWebm == <<".", "w", "e", "b", "m">>
DotMp4 == <<".", "m", "p", "4">>
DotMov == <<".", "m", "o", "v">>
DotWebp == <<".", "w", "e", "b", "p">>
DotPng == <<".", "p", "n", "g">>
DotJpg == <<".", "j", "p", "g">>

\* the directory tempfile.TemporaryDirectory() creates
TempDir == <<"/", "t", "m", "p", "/", "x">>

\* Path(temp_dir) / name
in_dir(name) == TempDir \o <<"/">> \o name

\* the names an upload of type webm, mp4 or mov can have
UploadNames ==
    { <<"a">> \o DotWebm, <<"a">> \o DotMp4, <<"a">> \o DotMov,
      <<"a", ".", "b">> \o DotMp4 }

\* the names an upload of type webp, png, jpg or jpeg can have
ImageUploadNames == { <<"a">> \o DotWebp, <<"a">> \o DotPng, <<"a">> \o DotJpg }

\* ffmpeg is given no -f: it takes the container from the extension of the
\* output file name
ffmpeg_container(name) ==
    IF suffix(name) = DotWebm THEN "webm"
    ELSE IF suffix(name) = DotMp4 THEN "mp4"
    ELSE IF suffix(name) = DotMov THEN "mov"
    ELSE "unknown"

----------------------------------------------------------------------------
(* The video request: `if uploaded_video is not None:` of the video tab *)

NoRequest ==
    /\ upload = None
    /\ tmp = [state |-> "none", files |-> << >>]
    /\ video_info = None
    /\ result = None
    /\ offer = None
    /\ trail = << >>

temp_input == upload[1].name
temp_output == Optimized \o upload[1].name
temp_video_display ==
    <<"d", "i", "s", "p", "l", "a", "y", "_", "v", "i", "d", "e", "o">> \o DotWebm

\* the values of the entries in the requests: nothing, or an integer
AppFieldTexts == { << >>, <<"8">> }
AppFieldLists == UNION {[1..n -> AppFieldTexts] : n \in {0, 4, 5}}

\* a file of the directory: its size and what it holds
File(size, holds) == [size |-> size, holds |-> holds]

\* ffmpeg_available = check_ffmpeg(); without ffmpeg the tab only explains,
\* without an upload it shows the uploader and nothing else
VidTab ==
    /\ pc = "vid_tab"
    /\ \E run \in VersionRuns :
         LET r == check_ffmpeg(run)
         IN  /\ fn' = "check_ffmpeg"
             /\ args' = None
             /\ env' = run
             /\ ran' = r.ran
             /\ ret' = r.ret
             /\ exc' = r.exc
             /\ disk' = r.disk
             /\ IF r.exc = "none" /\ r.ret
                THEN \E uploaded \in BOOLEAN :
                       pc' = IF uploaded THEN "vid_upload" ELSE "run_end"
                ELSE pc' = "run_end"
    /\ UNCHANGED reqvars

\* the directory is created and the upload written into it
VidEnter ==
    /\ pc = "vid_upload"
    /\ \E name \in UploadNames, size \in 0..MaxFile :
         /\ upload' = Some([name |-> name, size |-> size])
         /\ tmp' = [state |-> "live", files |-> (name :> File(size, "upload"))]
    /\ trail' = <<"mkdtemp", "write_input">>
    /\ pc' = "vid_probe"
    /\ UNCHANGED <<callvars, video_info, result, offer>>

\* video_info = get_video_info(temp_input)
VidProbe ==
    /\ pc = "vid_probe"
    /\ \E run \in ProbeOutputsOf(AppFieldLists) :
         LET r == get_video_info(str_path(in_dir(temp_input)), run)
         IN  /\ fn' = "get_video_info"
             /\ args' = [video_path |-> str_path(in_dir(temp_input))]
             /\ env' = run
             /\ ran' = r.ran
             /\ ret' = r.ret
             /\ exc' = r.exc
             /\ video_info' = r.ret
    /\ trail' = Append(trail, "probe")
    /\ pc' = "vid_info"
    /\ UNCHANGED <<disk, upload, tmp, result, offer>>

\* f"{video_info.get('duration', 0):.1f}": the key is always in the dict,
\* so the default is never taken, and None does not take the format .1f
info_raises_TypeError(info) == info # None /\ info[1].duration = None

\* the original video, its size and its info are displayed
VidShowInfo ==
    /\ pc = "vid_info"
    /\ IF info_raises_TypeError(video_info)
       THEN /\ exc' = "TypeError"
            /\ trail' = Append(trail, "info_raised")
            /\ pc' = "vid_cleanup"
       ELSE /\ exc' = exc
            /\ trail' = Append(trail, "info_shown")
            /\ pc' = "vid_button"
    /\ UNCHANGED <<fn, args, env, ran, ret, disk, upload, tmp, video_info, result, offer>>

\* st.button("Optimize Video"): true in the run the click triggered
VidButton ==
    /\ pc = "vid_button"
    /\ \E clicked \in BOOLEAN :
         pc' = IF clicked THEN "vid_optimize" ELSE "vid_cleanup"
    /\ trail' = Append(trail, "button")
    /\ UNCHANGED <<callvars, upload, tmp, video_info, result, offer>>

\* ffmpeg reads the token after -i as its input: it can exit with status 0
\* only if that is a file there is, and one that holds data
ffmpeg_can_succeed(cmd, files) ==
    \E name \in DOMAIN files :
        cmd[3] = str_path(in_dir(name)) /\ files[name].size > 0

\* the outcomes of ffmpeg in the request: nothing is written when it does
\* not start, and the output is in the container its name selects
RequestRuns(cmd, files) ==
    {run \in VideoRuns :
        /\ run.kind # "exit" => run.written = None
        /\ (run.kind = "exit" /\ run.code = 0) => ffmpeg_can_succeed(cmd, files)}

\* success, error = optimize_video(temp_input, temp_output, crf=crf,
\*                                 speed=speed, fps=target_fps)
VidOptimize ==
    /\ pc = "vid_optimize"
    /\ \E crf \in CrfValues, speed \in SpeedValues, fps_limit \in BOOLEAN :
         LET target_fps == IF fps_limit THEN Some(30) ELSE None
             input_path == str_path(in_dir(temp_input))
             output_path == str_path(in_dir(temp_output))
         IN  \E run \in RequestRuns(video_cmd(input_path, output_path, crf, speed,
                                              target_fps), tmp.files) :
               LET r == optimize_video(input_path, output_path, crf, speed,
                                       target_fps, run)
               IN  /\ fn' = "optimize_video"
                   /\ args' = [input_path |-> input_path, output_path |-> output_path,
                               crf |-> crf, speed |-> speed, fps |-> target_fps]
                   /\ env' = run
                   /\ ran' = r.ran
                   /\ ret' = r.ret
                   /\ exc' = r.exc
                   /\ disk' = r.disk
                   /\ tmp' = IF r.disk = None THEN tmp
                             ELSE [tmp EXCEPT !.files = (temp_output :>
                                       File(r.disk[1], ffmpeg_container(temp_output)))
                                       @@ @]
                   /\ result' = IF r.exc = "none" THEN Some(r.ret) ELSE None
                   /\ pc' = IF r.exc = "none" THEN "vid_report" ELSE "vid_cleanup"
    /\ trail' = Append(trail, "invoke")
    /\ UNCHANGED <<upload, video_info, offer>>

\* `if success and temp_output.exists():` the output is read, copied for
\* display and offered for download; `else:` the error is shown
VidReport ==
    /\ pc = "vid_report"
    /\ IF result[1].success /\ temp_output \in DOMAIN tmp.files
       THEN /\ tmp' = [tmp EXCEPT !.files = (temp_video_display :> tmp.files[temp_output])
                                            @@ @]
            /\ offer' = Some([file_name |-> Optimized \o stem(upload[1].name) \o DotWebm,
                              mime |-> "video/webm",
                              data |-> tmp.files[temp_output]])
            /\ trail' = Append(trail, "read_output")
       ELSE /\ UNCHANGED <<tmp, offer>>
            /\ trail' = Append(trail, "error_shown")
    /\ pc' = "vid_cleanup"
    /\ UNCHANGED <<callvars, upload, video_info, result>>

\* variant: shutil.rmtree(temp_dir) as the last statement of the block,
\* which an exception skips
VidCleanup_last_statement ==
    /\ pc = "vid_cleanup"
    /\ tmp' = IF exc = "none" THEN [state |-> "removed", files |-> << >>] ELSE tmp
    /\ trail' = IF exc = "none" THEN Append(trail, "rmtree") ELSE trail
    /\ pc' = "vid_end"
    /\ UNCHANGED <<callvars, upload, video_info, result, offer>>

\* the exit of `with tempfile.TemporaryDirectory() as temp_dir:`, taken on
\* a normal exit and on an exception alike
VidCleanup ==
    /\ pc = "vid_cleanup"
    /\ tmp' = [state |-> "removed", files |-> << >>]
    /\ trail' = Append(trail, "rmtree")
    /\ pc' = "vid_end"
    /\ UNCHANGED <<callvars, upload, video_info, result, offer>>

----------------------------------------------------------------------------
(* The image tab and its request: `if uploaded_file is not None:` *)

\* webp_available, method = check_cwebp(); without WebP support the tab
\* only explains, without an upload it shows the uploader and nothing else
ImgTab ==
    /\ pc = "img_tab"
    /\ \E run \in ProbeRuns :
         LET r == check_cwebp(run)
         IN  /\ fn' = "check_cwebp"
             /\ args' = None
             /\ env' = run
             /\ ran' = r.ran
             /\ ret' = r.ret
             /\ exc' = r.exc
             /\ disk' = r.disk
             /\ IF r.exc # "none" THEN pc' = "run_end"
                ELSE IF ~r.ret.available THEN pc' = "vid_tab"
                ELSE \E uploaded \in BOOLEAN :
                       pc' = IF uploaded THEN "img_upload" ELSE "vid_tab"
    /\ UNCHANGED reqvars

\* the directory is created, the upload written into it, and the original
\* image displayed with its size
ImgEnter ==
    /\ pc = "img_upload"
    /\ \E name \in ImageUploadNames, size \in 0..MaxFile :
         /\ upload' = Some([name |-> name, size |-> size])
         /\ tmp' = [state |-> "live", files |-> (name :> File(size, "upload"))]
    /\ trail' = <<"mkdtemp", "write_input">>
    /\ pc' = "img_button"
    /\ UNCHANGED <<callvars, video_info, result, offer>>

\* st.button("Optimize Image"): true in the run the click triggered
ImgButton ==
    /\ pc = "img_button"
    /\ \E clicked \in BOOLEAN :
         pc' = IF clicked THEN "img_optimize" ELSE "img_cleanup"
    /\ trail' = Append(trail, "button")
    /\ UNCHANGED <<callvars, upload, tmp, video_info, result, offer>>

\* the outcomes of Pillow in the request: the output path is in a fresh
\* directory, and an input without data cannot be opened
ImageRequestRuns(files, input) ==
    {run \in ImageRuns :
        /\ run.stage \in {"open", "convert"} => run.before = None
        /\ run.stage # "open" => files[input].size > 0}

\* the file img.save leaves at the output path, if any: Pillow is told the
\* format, the name of the output does not choose it
saved_file(written) == File(written[1], "webp")

\* success, error = optimize_webp(temp_input, temp_output, quality=quality,
\*                                method=method)
ImgOptimize ==
    /\ pc = "img_optimize"
    /\ \E a \in ImageArgs, run \in ImageRequestRuns(tmp.files, temp_input) :
         LET input_path == str_path(in_dir(temp_input))
             output_path == str_path(in_dir(temp_output))
             r == optimize_webp(input_path, output_path, a.quality, a.method, run)
         IN  /\ fn' = "optimize_webp"
             /\ args' = [input_path |-> input_path, output_path |-> output_path,
                         quality |-> a.quality, method |-> a.method]
             /\ env' = run
             /\ ran' = r.ran
             /\ ret' = r.ret
             /\ exc' = r.exc
             /\ disk' = r.disk
             /\ tmp' = IF r.disk = None THEN tmp
                       ELSE [tmp EXCEPT !.files = (temp_output :> saved_file(r.disk)) @@ @]
             /\ result' = IF r.exc = "none" THEN Some(r.ret) ELSE None
             /\ pc' = IF r.exc = "none" THEN "img_report" ELSE "img_cleanup"
    /\ trail' = Append(trail, "invoke")
    /\ UNCHANGED <<upload, video_info, offer>>

\* `if success and temp_output.exists():` the output is read, displayed and
\* offered for download; `else:` the error is shown
ImgReport ==
    /\ pc = "img_report"
    /\ IF result[1].success /\ temp_output \in DOMAIN tmp.files
       THEN /\ offer' = Some([file_name |-> Optimized \o stem(upload[1].name) \o DotWebp,
                              mime |-> "image/webp",
                              data |-> tmp.files[temp_output]])
            /\ trail' = Append(trail, "read_output")
       ELSE /\ UNCHANGED offer
            /\ trail' = Append(trail, "error_shown")
    /\ pc' = "img_cleanup"
    /\ UNCHANGED <<callvars, upload, tmp, video_info, result>>

\* the exit of `with tempfile.TemporaryDirectory() as temp_dir:`, taken on
\* a normal exit and on an exception alike
ImgCleanup ==
    /\ pc = "img_cleanup"
    /\ tmp' = [state |-> "removed", files |-> << >>]
    /\ trail' = Append(trail, "rmtree")
    /\ pc' = "img_end"
    /\ UNCHANGED <<callvars, upload, video_info, result, offer>>

\* after the image request the script goes on to the video tab, unless an
\* exception ended the run; the video tab has no request yet
ImgLeave ==
    /\ pc = "img_end"
    /\ pc' = IF exc = "none" THEN "vid_tab" ELSE "run_end"
    /\ upload' = None
    /\ tmp' = [state |-> "none", files |-> << >>]
    /\ video_info' = None /\ result' = None /\ offer' = None /\ trail' = << >>
    /\ UNCHANGED callvars

\* the next interaction runs the script again, from nothing
Rerun ==
    /\ pc \in {"vid_end", "run_end"}
    /\ pc' = "img_tab"
    /\ fn' = "none" /\ args' = None /\ env' = None /\ ran' = << >>
    /\ ret' = None /\ exc' = "none" /\ disk' = None
    /\ upload' = None
    /\ tmp' = [state |-> "none", files |-> << >>]
    /\ video_info' = None /\ result' = None /\ offer' = None /\ trail' = << >>

AppInit ==
    /\ pc = "img_tab"
    /\ fn = "none" /\ args = None /\ env = None /\ ran = << >>
    /\ ret = None /\ exc = "none" /\ disk = None
    /\ NoRequest

AppNext ==
    \/ ImgTab
    \/ ImgEnter
    \/ ImgButton
    \/ ImgOptimize
    \/ ImgReport
    \/ ImgCleanup
    \/ ImgLeave
    \/ VidTab
    \/ VidEnter
    \/ VidProbe
    \/ VidShowInfo
    \/ VidButton
    \/ VidOptimize
    \/ VidReport
    \/ VidCleanup
    \/ Rerun

AppSpec == AppInit /\ [][AppNext]_vars

----------------------------------------------------------------------------
(* A call: the function, its arguments, the file already at the output path
   and the outcome of the external tool are drawn; the action applies the
   function. *)

Calls ==
    [fn : {"optimize_video"}, args : VideoArgs, env : VideoRuns]
    \cup [fn : {"optimize_webp"}, args : ImageArgs, env : ImageRuns]
    \cup [fn : {"check_cwebp"}, args : {None}, env : ProbeRuns]
    \cup [fn : {"check_ffmpeg"}, args : {None}, env : VersionRuns]
    \cup [fn : {"get_video_info"}, args : [video_path : {"in.webm"}], env : ProbeOutputs]
    \cup [fn : {"format_size"}, args : [size_bytes : Sizes], env : {None}]

Init ==
    /\ pc = "call"
    /\ \E c \in Calls : fn = c.fn /\ args = c.args /\ env = c.env
    /\ ran = << >>
    /\ ret = None
    /\ exc = "none"
    /\ disk = None
    /\ NoRequest

Next ==
    \/ CallOptimizeVideo
    \/ CallOptimizeWebp
    \/ CallCheckCwebp
    \/ CallCheckFfmpeg
    \/ CallGetVideoInfo
    \/ CallFormatSize

Spec == Init /\ [][Next]_vars

----------------------------------------------------------------------------
(* Properties of the calls *)

Done(f) == pc = "done" /\ fn = f

\* the argument list of the documented ffmpeg invocation
documented_cmd(a) ==
    <<"ffmpeg", "-i", a.input_path>>
    \o (IF a.fps # None THEN <<"-vf", "fps=" \o ToString(a.fps[1])>> ELSE << >>)
    \o <<"-c:v", "libvpx-vp9", "-crf", ToString(a.crf), "-b:v", "0",
         "-speed", ToString(a.speed), "-row-mt", "1", "-tile-columns", "2",
         "-tile-rows", "1", "-frame-parallel", "1", "-threads", "0",
         "-c:a", "libopus", "-b:a", "96k", "-y", a.output_path>>

\* C1: optimize_video executes exactly the documented argument list: the
\* input path right after -i, the pair -vf fps=N (when fps is provided)
\* after the input path and before -c:v, then the fixed codec flags and the
\* output path.
C1_VideoCommandLine ==
    Done("optimize_video") => ran = <<documented_cmd(args)>>

\* the transcoder invocation failed: not started, or a non-zero exit
video_failed == env.kind # "exit" \/ env.code # 0

\* C2: optimize_video never raises: however the transcoder invocation
\* fails (non-zero exit, binary that cannot be started, another OS-level
\* error at launch), the call returns (False, <non-empty error string>).
C2_VideoNeverRaises ==
    (Done("optimize_video") /\ video_failed)
        => /\ exc = "none"
           /\ ret.success = FALSE
           /\ ret.error # None
           /\ ret.error[1] # ""

\* C3: exit status 0 yields (True, None); a non-zero exit yields (False, s)
\* with s the captured stderr text when it is non-empty and the generic
\* error description otherwise, so s is never empty and never None.
C3_ExitStatusMapping ==
    (Done("optimize_video") /\ env.kind = "exit")
        => /\ exc = "none"
           /\ IF env.code = 0
              THEN ret = [success |-> TRUE, error |-> None]
              ELSE /\ ret.success = FALSE
                   /\ ret.error # None
                   /\ ret.error[1] # ""
                   /\ ret.error[1] = IF env.stderr # "" THEN env.stderr
                                     ELSE CalledProcessError_str(ran[1], env.code)

\* C4: when optimize_webp or optimize_video returns with the success flag
\* true, the output file exists at the output path and is not empty.
C4_SuccessMeansOutput ==
    (pc = "done" /\ fn \in {"optimize_webp", "optimize_video"}
                 /\ exc = "none" /\ ret.success)
        => disk # None /\ disk[1] > 0

\* a transcode reported as a success over a path that held an empty file or
\* more: the output is there and holds data
C4_Witness ==
    /\ Done("optimize_video")
    /\ exc = "none" /\ ret.success
    /\ env.code = 0
    /\ disk # None /\ disk[1] > 0

\* the position of the first occurrence of c in text s (0: none)
index_of(s, c) ==
    IF \E i \in 1..Len(s) : s[i] = c
    THEN CHOOSE i \in 1..Len(s) : s[i] = c /\ \A k \in 1..(i - 1) : s[k] # c
    ELSE 0

\* a formatted size read back: the number before the blank, the unit after
shown_number(text) == SubSeq(text, 1, index_of(text, " ") - 1)
shown_unit(text) == SubSeq(text, index_of(text, " ") + 1, Len(text))

all_digits(s) == s # << >> /\ \A i \in 1..Len(s) : s[i] \in DigitChars

\* the text is <digits>.<two digits>
two_decimals(s) ==
    LET p == index_of(s, ".")
    IN  /\ p > 1 /\ Len(s) = p + 2
        /\ all_digits(SubSeq(s, 1, p - 1)) /\ all_digits(SubSeq(s, p + 1, Len(s)))

\* the value of such a text, in hundredths
hundredths(s) ==
    LET p == index_of(s, ".")
    IN  100 * digits_value(SubSeq(s, 1, p - 1)) + digits_value(SubSeq(s, p + 1, Len(s)))

\* h hundredths is b/den to two decimals: within half a hundredth of it
nearest_hundredth(h, b, den) ==
    LET d == h * den - 100 * b
    IN  2 * d <= den /\ 2 * d >= -den

\* C5: format_size(b) has the unit fixed by the thresholds: "B" with the
\* integer b itself exactly when b < 1024, "KB" with b/1024 to two decimals
\* exactly when 1024 <= b < 1024*1024, "MB" with b/1024^2 to two decimals
\* exactly when b >= 1024*1024; 500 -> "500 B", 2048 -> "2.00 KB",
\* 5*1024*1024 -> "5.00 MB".
C5_FormatSizeUnits ==
    Done("format_size") =>
        LET b == args.size_bytes
            n == shown_number(ret)
            u == shown_unit(ret)
        IN  /\ exc = "none"
            /\ index_of(ret, " ") > 1
            /\ u \in {<<"B">>, <<"K", "B">>, <<"M", "B">>}
            /\ (u = <<"B">>) <=> (b < 1024)
            /\ (u = <<"K", "B">>) <=> (1024 <= b /\ b < 1024 * 1024)
            /\ (u = <<"M", "B">>) <=> (b >= 1024 * 1024)
            /\ u = <<"B">> => all_digits(n) /\ digits_value(n) = b
            /\ u = <<"K", "B">> =>
                   two_decimals(n) /\ nearest_hundredth(hundredths(n), b, 1024)
            /\ u = <<"M", "B">> =>
                   two_decimals(n) /\ nearest_hundredth(hundredths(n), b, 1024 * 1024)
            /\ b = 500 => ret = <<"5", "0", "0", " ", "B">>
            /\ b = 2048 => ret = <<"2", ".", "0", "0", " ", "K", "B">>
            /\ b = 5 * 1024 * 1024 => ret = <<"5", ".", "0", "0", " ", "M", "B">>

\* the lower threshold itself was formatted, in KB
C5_Witness ==
    /\ Done("format_size")
    /\ args.size_bytes = 1024
    /\ ret = <<"1", ".", "0", "0", " ", "K", "B">>

\* what the printed values are: the integers, and the decimals
IntegerTexts == (<<"8">> :> 8) @@ (<<"4", "0">> :> 40)
DecimalTexts ==
    (<<"8">> :> [num |-> 8, scale |-> 0]) @@ (<<"4", "0">> :> [num |-> 40, scale |-> 0])
    @@ (<<"1", ".", "5">> :> [num |-> 15, scale |-> 1])

\* field i of the printed fields, empty when there is none
field(f, i) == IF i <= Len(f) THEN f[i] ELSE << >>

\* a non-empty field that is not of its numeric type
malformed(f) ==
    \/ field(f, 1) # << >> /\ field(f, 1) \notin DOMAIN IntegerTexts
    \/ field(f, 2) # << >> /\ field(f, 2) \notin DOMAIN IntegerTexts
    \/ field(f, 4) # << >> /\ field(f, 4) \notin DOMAIN DecimalTexts
    \/ field(f, 5) # << >> /\ field(f, 5) \notin DOMAIN IntegerTexts

\* the record of the fields read positionally, an empty field absent
positional(f) ==
    [width |-> IF field(f, 1) = << >> THEN None ELSE Some(IntegerTexts[field(f, 1)]),
     height |-> IF field(f, 2) = << >> THEN None ELSE Some(IntegerTexts[field(f, 2)]),
     fps |-> IF field(f, 3) = << >> THEN None ELSE Some(field(f, 3)),
     duration |-> IF field(f, 4) = << >> THEN None ELSE Some(DecimalTexts[field(f, 4)]),
     bitrate |-> IF field(f, 5) = << >> THEN None ELSE Some(IntegerTexts[field(f, 5)])]

\* what ffprobe printed is text, so that it has fields
unparsed_is_text == \A i \in 1..Len(env.stdout) : decodes(env.stdout[i])

\* C6: get_video_info never raises; it returns None when ffprobe cannot be
\* run or exits non-zero, when the output has fewer than four fields, and
\* when a non-empty field fails to parse as its numeric type; otherwise it
\* returns the record read positionally, with every empty or missing field
\* absent (None) and the frame rate as the raw string.
C6_VideoInfoBestEffort ==
    Done("get_video_info") =>
        /\ exc = "none"
        /\ IF env.kind # "exit" \/ env.code # 0 THEN ret = None
           ELSE IF ~unparsed_is_text THEN ret = None
           ELSE IF Len(env.fields) < 4 \/ malformed(env.fields) THEN ret = None
           ELSE ret = Some(positional(env.fields))

\* C7: optimize_webp never raises: on any exception while opening,
\* converting or writing the image it returns (False, <text of the caught
\* error>), and it returns (True, None) only when the encode and the write
\* completed without an exception.
C7_ImageNeverRaises ==
    Done("optimize_webp") =>
        /\ exc = "none"
        /\ IF env.stage = "ok"
           THEN ret = [success |-> TRUE, error |-> None]
           ELSE ret = [success |-> FALSE, error |-> Some(env.error.text)]

\* a palette image whose conversion raised: reported, not raised
C7_Witness ==
    /\ Done("optimize_webp")
    /\ env.stage = "convert" /\ env.error.type = "ValueError"
    /\ exc = "none"
    /\ ret = [success |-> FALSE, error |-> Some("conversion not supported")]

\* C8: probing is never fatal.  check_cwebp returns (True, 'command_line')
\* when cwebp -version succeeds; however that command fails (binary
\* missing, non-zero exit, any other invocation error) it falls back to the
\* trial encode and returns (True, 'pillow') if that succeeds and
\* (False, None) only if both fail; check_ffmpeg returns True or False for
\* every outcome.  Neither lets an exception propagate.
C8_ProbesNeverRaise ==
    /\ Done("check_cwebp") =>
          /\ exc = "none"
          /\ IF env.cwebp.kind = "exit" /\ env.cwebp.code = 0
             THEN ret = [available |-> TRUE, mode |-> Some("command_line")]
             ELSE IF env.pillow = "ok"
             THEN ret = [available |-> TRUE, mode |-> Some("pillow")]
             ELSE ret = [available |-> FALSE, mode |-> None]
    /\ Done("check_ffmpeg") =>
          /\ exc = "none"
          /\ ret \in BOOLEAN

----------------------------------------------------------------------------
(* Properties of the video request *)

\* C9: in a video request, whatever the type of the upload (webm, mp4,
\* mov), the file that is offered for download as optimized_<stem>.webm
\* with mime video/webm is a WebM file: the output path handed to the
\* transcoder selects the WebM container.
C9_DownloadIsWebm ==
    (offer # None /\ fn = "optimize_video") =>
        /\ offer[1].file_name = Optimized \o stem(upload[1].name) \o DotWebm
        /\ offer[1].mime = "video/webm"
        /\ args.output_path = str_path(in_dir(temp_output))
        /\ ffmpeg_container(temp_output) = "webm"
        /\ offer[1].data.holds = "webm"

took(step) == \E i \in 1..Len(trail) : trail[i] = step

\* C10: whatever get_video_info returned (None, or a record with any of
\* width, height, frame rate, duration and bit rate absent), the display of
\* the original video's info completes without raising and the request
\* reaches the Optimize Video button.
C10_ProbeNeverBlocks ==
    (took("probe") /\ pc # "vid_info")
        => /\ took("info_shown")
           /\ took("button") \/ pc = "vid_button"
           /\ exc # "TypeError"

\* the steps of a request between the creation of its directory and the
\* exit of the `with` block
InRequest ==
    pc \in {"img_button", "img_optimize", "img_report", "img_cleanup",
            "vid_probe", "vid_info", "vid_button", "vid_optimize",
            "vid_report", "vid_cleanup"}

\* every occurrence of `later` in the trail has an `earlier` before it
precedes(earlier, later) ==
    \A j \in 1..Len(trail) :
        trail[j] = later => \E i \in 1..(j - 1) : trail[i] = earlier

invocations == Cardinality({i \in 1..Len(trail) : trail[i] = "invoke"})

\* C11: an image or video request owns its temporary directory for exactly
\* the lifetime of the request: the directory and the input file exist from
\* before the adapter is invoked until the request is left, the output is
\* read only after the adapter has returned, on every path out of the
\* request (success, failure returned, no click, exception) the directory
\* and all its files are removed, and the adapter is invoked at most once.
C11_ScopedTempDirectory ==
    /\ InRequest =>
          /\ tmp.state = "live"
          /\ temp_input \in DOMAIN tmp.files
          /\ Len(trail) >= 2 /\ trail[1] = "mkdtemp" /\ trail[2] = "write_input"
    /\ tmp.state = "live" => InRequest
    /\ precedes("mkdtemp", "invoke") /\ precedes("write_input", "invoke")
    /\ precedes("invoke", "read_output")
    /\ took("read_output") =>
          /\ fn \in {"optimize_webp", "optimize_video"}
          /\ result # None /\ exc = "none"
    /\ (trail # << >> /\ ~InRequest) =>
          /\ pc \in {"img_end", "vid_end"}
          /\ tmp.state = "removed" /\ tmp.files = << >>
          /\ trail[Len(trail)] = "rmtree"
    /\ invocations <= 1

\* a request left by an exception of the adapter, its directory removed
C11_Witness ==
    /\ pc = "vid_end"
    /\ fn = "optimize_video" /\ exc \in LaunchErrors
    /\ invocations = 1
    /\ tmp.state = "removed" /\ tmp.files = << >>

====
